---- MODULE Spec2Model ----
(***************************************************************************)
(* Model of the user handlers of src/features/users/handlers.rs:           *)
(* create_user, get_user_by_id, update_user, delete_user, update_avatar.   *)
(* Every database statement of a handler is a step of its own: between two *)
(* statements of one request any step of another request may run.  What a  *)
(* handler does between two statements on data no other request can see    *)
(* (its payload, its multipart stream, its freshly named file) belongs to   *)
(* the step of the statement that follows.  The users table is a function  *)
(* from the ids of the stored rows to the rows; the only key the handlers  *)
(* rely on is the primary key `id` (users::table.find(id)); the handlers    *)
(* enforce nothing else on the table.                                      *)
(***************************************************************************)
EXTENDS Integers, Sequences, FiniteSets, TLC

\* ------------------------------------------------------------------ bounds
MaxIds == 2        \* ids the store hands out (rows ever inserted)
MaxFiles == 2      \* Uuid::new_v4() values drawn (files ever named)

\* The handler tasks that can be between their first and last await at once.
Slots == {1, 2}
Ids == 1..MaxIds

\* ------------------------------------------------------------- value sets
NONE == "<none>"                      \* Option<String>::None of name/email/role
None == [some |-> FALSE, val |-> <<>>]          \* avatar: Option<String>
Some(v) == [some |-> TRUE, val |-> v]

CreatePayloads ==
    { [username |-> "n1", email |-> "e1", password |-> "p1", role |-> NONE],
      [username |-> "n2", email |-> "e1", password |-> "p2", role |-> "admin"] }

UpdatePayloads ==
    { [name |-> "n2", email |-> NONE, avatar |-> Some(<<"v">>)],
      [name |-> NONE, email |-> "e2", avatar |-> None] }

\* A string is a sequence of tokens; "." and "/" are tokens of their own.
FileNames == { <<>>, <<"a">>, <<"a", ".", "p">> }   \* <<>>: no file name sent
ImagePng == <<"image", "/", "png">>
ContentTypes == { ImagePng, <<"text", "/", "plain">>,
                  <<"text", "/", "x-", "image">> }
Parts == [name : {"avatar", "file"}, file_name : FileNames,
          content_type : ContentTypes]

NoRow == [name |-> NONE, email |-> NONE, password |-> NONE, role |-> NONE,
          avatar |-> None]

VARIABLES users, nextId, deleted, nextUuid, reqs, resp
vars == <<users, nextId, deleted, nextUuid, reqs, resp>>

\* ------------------------------------------------------- pure functions
\* str::split("."): the segments between the dots; "" gives one empty segment.
RECURSIVE SplitAcc(_, _, _)
SplitAcc(s, cur, acc) ==
    IF s = <<>> THEN Append(acc, cur)
    ELSE IF Head(s) = "." THEN SplitAcc(Tail(s), <<>>, Append(acc, cur))
    ELSE SplitAcc(Tail(s), Append(cur, Head(s)), acc)
Split(s) == SplitAcc(s, <<>>, <<>>)

\* Regex::new("image/*").is_match(ct): an unanchored search for "image"
\* followed by zero or more "/".
RegexIsMatch(ct) == \E i \in 1..Len(ct) : ct[i] = "image"

\* format!("{filename}-{}.{extension}", Uuid::new_v4())
NewFilename(stem, uuid, ext) == stem \o <<"-", ToString(uuid), ".">> \o ext

\* payload.role.unwrap_or("user")
RoleOrDefault(role) == IF role = NONE THEN "user" ELSE role

\* NewUser { name, email, password, role, avatar: None }
NewUser(p) == [name |-> p.username, email |-> p.email, password |-> p.password,
               role |-> RoleOrDefault(p.role), avatar |-> None]

\* ------------------------------------------------------- store statements
\* users::table.filter(users::email.eq(e)).count()
CountEmail(tbl, e) == Cardinality({i \in DOMAIN tbl : tbl[i].email = e})
\* users::table.filter(users::name.eq(n)).count()
CountName(tbl, n) == Cardinality({i \in DOMAIN tbl : tbl[i].name = n})

\* insert_into(users::table).values(NewUser {..}) with a store-generated id
InsertRow(tbl, id, row) ==
    [i \in DOMAIN tbl \cup {id} |-> IF i = id THEN row ELSE tbl[i]]

\* Faulty variant of AsChangeset: the changeset leaves the name column out.
AsChangesetNoName(cur, u) ==
    [name |-> cur.name, email |-> u.email, password |-> u.password,
     role |-> u.role,
     avatar |-> IF u.avatar.some THEN u.avatar ELSE cur.avatar]

\* .set(existed_user): the changeset of a User writes every non-key column;
\* an Option column that is None is left out of the statement.
AsChangeset(cur, u) ==
    [name |-> u.name, email |-> u.email, password |-> u.password,
     role |-> u.role,
     avatar |-> IF u.avatar.some THEN u.avatar ELSE cur.avatar]

\* Faulty variant of UpdateWhereId: the row is inserted when no row has the
\* id (an upsert).
UpdateWhereIdUpsert(tbl, id, u) ==
    [i \in DOMAIN tbl \cup {id} |->
        IF i # id THEN tbl[i]
        ELSE IF i \in DOMAIN tbl THEN AsChangeset(tbl[i], u) ELSE u]

\* update(users::table.filter(users::id.eq(id))).set(u)
UpdateWhereId(tbl, id, u) ==
    [i \in DOMAIN tbl |-> IF i = id THEN AsChangeset(tbl[i], u) ELSE tbl[i]]

\* update(users::table).set(u): no filter, every row takes the changeset
UpdateAll(tbl, u) == [i \in DOMAIN tbl |-> AsChangeset(tbl[i], u)]

\* Faulty variant of DeleteWhereId: the statement has lost its filter.
DeleteAll(tbl, id) == <<>>

\* delete(users::table.filter(users::id.eq(id)))
DeleteWhereId(tbl, id) == [i \in DOMAIN tbl \ {id} |-> tbl[i]]

\* ------------------------------------------------------------- requests
Idle == [kind |-> "idle", pc |-> "idle", sender |-> 0,
         create |-> [username |-> NONE, email |-> NONE, password |-> NONE,
                     role |-> NONE],
         patch |-> [name |-> NONE, email |-> NONE, avatar |-> None],
         email_count |-> 0, existed |-> NoRow,
         new_filename |-> <<>>, updated |-> FALSE,
         nfiles |-> 0, ndbr |-> 0, ndbw |-> 0]

\* resp is the response the step just taken sent, NoResp when it sent none.
\* lost: the write that was answered changed a column its request did not send.
NoResp == [op |-> "none", result |-> "none", lost |-> FALSE]
Response(op, result) == [op |-> op, result |-> result, lost |-> FALSE]

Init ==
    /\ users = <<>>
    /\ nextId = 1
    /\ deleted = {}
    /\ nextUuid = 1
    /\ reqs = [r \in Slots |-> Idle]
    /\ resp = NoResp

\* A request takes the lowest free slot.
FreeSlot(r) == reqs[r].pc = "idle" /\ \A s \in Slots : s < r => reqs[s].pc # "idle"

Finish(r, result) ==
    /\ reqs' = [reqs EXCEPT ![r] = Idle]
    /\ resp' = Response(reqs[r].kind, result)

\* ---------------------------------------------------------- create_user
\* The request arrives with payload p and runs to its first query's result.
CreateCountEmail(r, p) ==
    /\ FreeSlot(r)
    /\ nextId + Cardinality({s \in Slots : reqs[s].kind = "create_user"}) <= MaxIds
    /\ reqs' = [reqs EXCEPT ![r] = [Idle EXCEPT
                                     !.kind = "create_user",
                                     !.pc = "count_name",
                                     !.create = p,
                                     !.email_count = CountEmail(users, p.email)]]
    /\ resp' = NoResp
    /\ UNCHANGED <<users, nextId, deleted, nextUuid>>

CreateCountName(r) ==
    /\ reqs[r].kind = "create_user" /\ reqs[r].pc = "count_name"
    /\ LET username_count == CountName(users, reqs[r].create.username)
       IN IF reqs[r].email_count > 0 \/ username_count > 0
          THEN Finish(r, "UserAlreadyExists")
          ELSE /\ reqs' = [reqs EXCEPT ![r].pc = "insert"]
               /\ resp' = NoResp
    /\ UNCHANGED <<users, nextId, deleted, nextUuid>>

CreateInsert(r) ==
    /\ reqs[r].kind = "create_user" /\ reqs[r].pc = "insert"
    /\ users' = InsertRow(users, nextId, NewUser(reqs[r].create))
    /\ nextId' = nextId + 1
    /\ reqs' = [reqs EXCEPT ![r] = Idle]
    /\ resp' = Response("create_user", "Created")
    /\ UNCHANGED <<deleted, nextUuid>>

\* ------------------------------------------------------- get_user_by_id
\* users::table.find(id).first(): no row is RecordNotFound
GetUserByIdResult(tbl, id) == IF id \in DOMAIN tbl THEN "OK" ELSE "RecordNotFound"

GetUserById(id) ==
    /\ resp' = Response("get_user_by_id", GetUserByIdResult(users, id))
    /\ UNCHANGED <<users, nextId, deleted, nextUuid, reqs>>

\* ---------------------------------------------------------- delete_user
DeleteUser(id) ==
    /\ users' = DeleteWhereId(users, id)
    /\ deleted' = IF id < nextId THEN deleted \cup {id} ELSE deleted
    /\ resp' = Response("delete_user", "NoContent")
    /\ UNCHANGED <<nextId, nextUuid, reqs>>

\* ---------------------------------------------------------- update_user
\* The caller holds the identity of a row that was inserted; while the row is
\* stored its role must be "user" (only_role).
Caller(c) == c < nextId /\ (c \in DOMAIN users => users[c].role = "user")

\* if name.is_some() {..} if email.is_some() {..} if avatar.is_some() {..}
ApplyPatch(u, p) ==
    [u EXCEPT !.name = IF p.name # NONE THEN p.name ELSE @,
              !.email = IF p.email # NONE THEN p.email ELSE @,
              !.avatar = IF p.avatar.some THEN p.avatar ELSE @]

\* The request of caller c arrives with payload p and runs to the fetched
\* row, with the payload's fields put in it.
UpdateUserFind(r, c, p) ==
    /\ FreeSlot(r)
    /\ Caller(c)
    /\ IF c \in DOMAIN users
       THEN /\ reqs' = [reqs EXCEPT ![r] = [Idle EXCEPT
                                            !.kind = "update_user",
                                            !.pc = "update",
                                            !.sender = c,
                                            !.patch = p,
                                            !.existed = ApplyPatch(users[c], p)]]
            /\ resp' = NoResp
       ELSE /\ UNCHANGED reqs
            /\ resp' = Response("update_user", "RecordNotFound")
    /\ UNCHANGED <<users, nextId, deleted, nextUuid>>

\* History: a column the request did not send and whose stored value the
\* write changes.
Clobbers(cur, u, p) ==
    \/ p.name = NONE /\ u.name # cur.name
    \/ p.email = NONE /\ u.email # cur.email
    \/ ~p.avatar.some /\ AsChangeset(cur, u).avatar # cur.avatar
    \/ u.password # cur.password
    \/ u.role # cur.role

\* .returning(..).get_result(): no row matched is an error (UpdateFailed)
UpdateUserUpdate(r) ==
    /\ reqs[r].kind = "update_user" /\ reqs[r].pc = "update"
    /\ LET c == reqs[r].sender
       IN /\ users' = UpdateWhereId(users, c, reqs[r].existed)
          /\ resp' = IF c \in DOMAIN users
                     THEN [Response("update_user", "Accepted") EXCEPT
                             !.lost = Clobbers(users[c], reqs[r].existed, reqs[r].patch)]
                     ELSE Response("update_user", "UpdateFailed")
    /\ reqs' = [reqs EXCEPT ![r] = Idle]
    /\ UNCHANGED <<nextId, deleted, nextUuid>>

\* --------------------------------------------------------- update_avatar
StartUpdateAvatar(r, c) ==
    /\ FreeSlot(r)
    /\ Caller(c)
    /\ reqs' = [reqs EXCEPT ![r] = [Idle EXCEPT !.kind = "update_avatar",
                                                !.pc = "next_field",
                                                !.sender = c]]
    /\ resp' = NoResp
    /\ UNCHANGED <<users, nextId, deleted, nextUuid>>

\* multipart.next_field() yields part p.  The name, the file name and the
\* content type are examined; for an accepted "avatar" part the caller's row
\* is fetched and the new file name is put in it.  Reading the stream touches
\* nothing another request can see, so it is one step with the fetch.
AvatarNextField(r, p) ==
    /\ reqs[r].kind = "update_avatar" /\ reqs[r].pc = "next_field"
    /\ LET parts == Split(p.file_name)
           c == reqs[r].sender
           new_filename == NewFilename(parts[1], nextUuid, parts[2])
       IN IF p.name # "avatar"
          THEN UNCHANGED <<reqs, nextUuid>> /\ resp' = NoResp
          ELSE IF Len(parts) < 2
          THEN Finish(r, "FileTypeInvalid") /\ UNCHANGED nextUuid
          ELSE IF ~RegexIsMatch(p.content_type)
          THEN Finish(r, "FileTypeInvalid") /\ UNCHANGED nextUuid
          ELSE IF c \notin DOMAIN users
          THEN Finish(r, "RecordNotFound") /\ UNCHANGED nextUuid
          ELSE /\ nextUuid <= MaxFiles
               /\ reqs' = [reqs EXCEPT
                             ![r].existed = [users[c] EXCEPT
                                               !.avatar = Some(new_filename)],
                             ![r].new_filename = new_filename,
                             ![r].ndbr = @ + 1,
                             ![r].pc = "create_file"]
               /\ nextUuid' = nextUuid + 1
               /\ resp' = NoResp
    /\ UNCHANGED <<users, nextId, deleted>>

\* multipart.next_field() yields None: the loop ends.
AvatarEndOfStream(r) ==
    /\ reqs[r].kind = "update_avatar" /\ reqs[r].pc = "next_field"
    /\ Finish(r, IF reqs[r].updated THEN "Accepted" ELSE "FieldNotFound")
    /\ UNCHANGED <<users, nextId, deleted, nextUuid>>

\* File::create(..) fails: no file, no database write.
AvatarCreateFileFailed(r) ==
    /\ reqs[r].kind = "update_avatar" /\ reqs[r].pc = "create_file"
    /\ Finish(r, "CreateFileFailed")
    /\ UNCHANGED <<users, nextId, deleted, nextUuid>>

\* File::create(..), field.bytes(), file.write(..), then
\* update(users::table).set(existed_user).execute(); updated = true.
\* The file has a name no other request uses, so writing it is one step with
\* the database update.
AvatarUpdate(r) ==
    /\ reqs[r].kind = "update_avatar" /\ reqs[r].pc = "create_file"
    /\ users' = UpdateAll(users, reqs[r].existed)
    /\ reqs' = [reqs EXCEPT ![r].nfiles = @ + 1, ![r].ndbw = @ + 1,
                            ![r].updated = TRUE, ![r].pc = "next_field"]
    /\ resp' = NoResp
    /\ UNCHANGED <<nextId, deleted, nextUuid>>

Next ==
    \/ \E r \in Slots, p \in CreatePayloads : CreateCountEmail(r, p)
    \/ \E r \in Slots : CreateCountName(r)
    \/ \E r \in Slots : CreateInsert(r)
    \/ \E id \in Ids : GetUserById(id)
    \/ \E id \in Ids : DeleteUser(id)
    \/ \E r \in Slots, c \in Ids, p \in UpdatePayloads : UpdateUserFind(r, c, p)
    \/ \E r \in Slots : UpdateUserUpdate(r)
    \/ \E r \in Slots, c \in Ids : StartUpdateAvatar(r, c)
    \/ \E r \in Slots, p \in Parts : AvatarNextField(r, p)
    \/ \E r \in Slots : AvatarEndOfStream(r)
    \/ \E r \in Slots : AvatarCreateFileFailed(r)
    \/ \E r \in Slots : AvatarUpdate(r)

Spec == Init /\ [][Next]_vars

\* ====================================================================
\* Properties
\* ====================================================================

\* C1: a create_user whose email or name is in use inserts no row: at the
\* step that inserts, no stored row has the payload's email or name.
C1_NoInsertWhenInUse ==
    [][\A r \in Slots :
         CreateInsert(r) =>
           /\ CountEmail(users, reqs[r].create.email) = 0
           /\ CountName(users, reqs[r].create.username) = 0]_vars

\* C2: no two distinct stored rows have the same name or the same email.
C2_NameAndEmailUnique ==
    \A i \in DOMAIN users : \A j \in DOMAIN users :
        i # j => users[i].name # users[j].name /\ users[i].email # users[j].email

\* C3: the database update of update_avatar sets the avatar of the caller's
\* row to the new file name and leaves every other row unchanged.
C3_AvatarUpdateScoped ==
    [][\A r \in Slots :
         AvatarUpdate(r) =>
           /\ reqs[r].sender \in DOMAIN users =>
                users'[reqs[r].sender].avatar = Some(reqs[r].new_filename)
           /\ \A i \in DOMAIN users \ {reqs[r].sender} :
                i \in DOMAIN users' /\ users'[i] = users[i]]_vars

\* C4: the write of a successful update_user changes exactly the columns the
\* payload carries, in the caller's row only: the absent columns, the
\* password and the role keep the values stored just before the write.
C4_UpdateUserFrame ==
    [][\A r \in Slots :
         (UpdateUserUpdate(r) /\ reqs[r].sender \in DOMAIN users) =>
           LET c == reqs[r].sender
               p == reqs[r].patch
           IN /\ DOMAIN users' = DOMAIN users
              /\ users'[c].name = (IF p.name # NONE THEN p.name ELSE users[c].name)
              /\ users'[c].email = (IF p.email # NONE THEN p.email ELSE users[c].email)
              /\ users'[c].avatar = (IF p.avatar.some THEN p.avatar ELSE users[c].avatar)
              /\ users'[c].password = users[c].password
              /\ users'[c].role = users[c].role
              /\ \A i \in DOMAIN users \ {c} : users'[i] = users[i]]_vars

\* An image type: the type part of the declared content type is "image".
IsImageType(ct) == Len(ct) >= 2 /\ ct[1] = "image" /\ ct[2] = "/"

\* C5: when update_avatar meets an "avatar" part whose content type is not an
\* image type, the request fails with FileTypeInvalid and has created no file.
C5_NonImageNoWrite ==
    [][\A r \in Slots : \A p \in Parts :
         (AvatarNextField(r, p) /\ p.name = "avatar" /\ ~IsImageType(p.content_type)) =>
           /\ resp'.op = "update_avatar" /\ resp'.result = "FileTypeInvalid"
           /\ reqs[r].nfiles = 0]_vars

\* C6: when update_avatar meets an "avatar" part whose file name has fewer
\* than two dot-separated segments, the request fails with FileTypeInvalid and
\* has read nothing from and written nothing to the database, and created no
\* file.
C6_NoDotBeforeAnyIO ==
    [][\A r \in Slots : \A p \in Parts :
         (AvatarNextField(r, p) /\ p.name = "avatar" /\ Len(Split(p.file_name)) < 2) =>
           /\ resp'.op = "update_avatar" /\ resp'.result = "FileTypeInvalid"
           /\ reqs[r].ndbr = 0 /\ reqs[r].ndbw = 0 /\ reqs[r].nfiles = 0]_vars

\* C7: an id that was never handed out, or whose delete_user has completed,
\* is not retrievable in any later state: get_user_by_id returns
\* RecordNotFound for it, whatever requests are in flight.
Gone(id) == id \in deleted \/ id >= nextId
C7_GoneStaysNotFound ==
    \A id \in Ids : Gone(id) => GetUserByIdResult(users, id) = "RecordNotFound"

\* C7 witness: an update_user that fetched its row before the row's delete
\* completed has written after it (no row matched), and the id stays gone.
C7_Witness ==
    /\ resp.op = "update_user" /\ resp.result = "UpdateFailed"
    /\ deleted # {}
    /\ \A id \in deleted : id \notin DOMAIN users

\* C8: delete_user answers no-content whether or not a row has the id; it
\* removes the row with the id and no other, and changes nothing when no row
\* has it.
C8_DeleteExactlyThatRow ==
    [][\A id \in Ids :
         DeleteUser(id) =>
           /\ resp'.op = "delete_user" /\ resp'.result = "NoContent"
           /\ DOMAIN users' = DOMAIN users \ {id}
           /\ \A j \in DOMAIN users' : users'[j] = users[j]
           /\ id \notin DOMAIN users => users' = users]_vars

\* C8 witness: only id 1 was ever handed out, its row is stored, and the step
\* just taken was a delete_user answered with no-content: the delete was of
\* an id no row has.
C8_Witness ==
    /\ resp.op = "delete_user" /\ resp.result = "NoContent"
    /\ nextId = 2 /\ DOMAIN users = {1}

\* C9: an update_avatar request creates at most one file and writes the
\* database at most once, and a request that ends in an error has written no
\* avatar to the database.
AvatarErrors == {"FileTypeInvalid", "FieldNotFound", "RecordNotFound", "CreateFileFailed"}
C9_FirstAvatarPartOnly ==
    [][\A r \in Slots :
         /\ reqs'[r].nfiles <= 1 /\ reqs'[r].ndbw <= 1
         /\ (reqs[r].kind = "update_avatar" /\ reqs'[r].kind = "idle"
             /\ resp'.result \in AvatarErrors) => reqs[r].ndbw = 0]_vars

\* C10: nothing ties the fetch to the write-back: the write of update_user
\* and of update_avatar puts the row the request holds in memory into the
\* caller's stored row, whatever the row has become since the fetch (the
\* last write wins).
C10_LastWriteWins ==
    [][\A r \in Slots :
         LET c == reqs[r].sender
             u == reqs[r].existed
         IN /\ (UpdateUserUpdate(r) /\ c \in DOMAIN users) =>
                 /\ resp'.result = "Accepted"
                 /\ users'[c].name = u.name /\ users'[c].email = u.email
                 /\ users'[c].password = u.password /\ users'[c].role = u.role
                 /\ u.avatar.some => users'[c].avatar = u.avatar
            /\ (AvatarUpdate(r) /\ c \in DOMAIN users) => users'[c] = u]_vars

\* C10 witness: an update_user was accepted whose write changed a column its
\* payload did not carry: the value another request had stored after this
\* request's fetch is lost.
C10_Witness ==
    resp.op = "update_user" /\ resp.result = "Accepted" /\ resp.lost
====
